---- MODULE Spec2Model ----
(***************************************************************************)
(* Crop price prediction service (ml-service): the rule-based fallback     *)
(* price, the /api/predict and /api/train request handlers working on the  *)
(* shared PricePredictor, and the DataValidator checks on the training     *)
(* table.                                                                  *)
(*                                                                         *)
(* Prices are integers in paise (1/100 rupee); a price product before      *)
(* rounding is kept exactly, as an integer scaled by 10^7.                 *)
(***************************************************************************)
EXTENDS Integers, Sequences, FiniteSets, TLC

(***************************************************************************)
(* State                                                                   *)
(***************************************************************************)
VARIABLES
    model_loaded,   \* app.py: the global model_loaded
    predictor,      \* app.py: the serving PricePredictor's fields
    model_file,     \* models/price_model.pkl on disk
    trainer,        \* the request threads handling POST /api/train
    now,            \* the clock, in months since January 2025
    nan_ok,         \* whether the installed regressor accepts nan in a row
    log,            \* the requests answered so far, in order
    fb_features,    \* a direct call of get_fallback_prediction: its argument
    fb_result,      \*   and its result
    csv_file,       \* DataValidator: the CSV file at self.filepath
    df,             \* DataValidator: self.df
    quality_report, \* DataValidator: self.quality_report
    report_file,    \* DataValidator: the saved validation report
    vpc,            \* DataValidator: the position of its caller
    pipeline,       \* DataPipeline: self.log, the saved log, the position in the run
    data_files      \* merge_with_existing: the files it reads and the file it writes

service_vars ==
    <<model_loaded, predictor, model_file, trainer, now, nan_ok, log, fb_features, fb_result>>

validator_vars == <<csv_file, df, quality_report, report_file, vpc>>

vars == <<service_vars, validator_vars, pipeline, data_files>>

(***************************************************************************)
(* JSON values as the handlers see them after request.get_json().          *)
(*   t = "str"    a string, s its text                                     *)
(*   t = "num"    a finite number, n its value                             *)
(*   t = "bigint" an integer literal beyond the range of a double          *)
(*   t = "nan"    the literal NaN (accepted by Python's json module)       *)
(*   t = "inf"    the literal Infinity, or a float literal that overflows  *)
(*   t = "bool"   true (n = 1) or false (n = 0)                            *)
(*   t = "null"   null (None)                                              *)
(*   t = "list"   an array (an unhashable Python list)                     *)
(*   t = "absent" the key is not in the dict                               *)
(***************************************************************************)
Str(x) == [t |-> "str", s |-> x, n |-> 0]
Num(x) == [t |-> "num", s |-> "", n |-> x]
Bool(b) == [t |-> "bool", s |-> "", n |-> IF b THEN 1 ELSE 0]
BigInt == [t |-> "bigint", s |-> "", n |-> 0]
NaNLit == [t |-> "nan", s |-> "", n |-> 0]
InfLit == [t |-> "inf", s |-> "", n |-> 0]
Null == [t |-> "null", s |-> "", n |-> 0]
JList == [t |-> "list", s |-> "", n |-> 0]
Absent == [t |-> "absent", s |-> "", n |-> 0]

(***************************************************************************)
(* Python floats: a finite value n (k = "fin"), nan or +inf; k = "absent"   *)
(* stands for a key that is not in the dict.                               *)
(***************************************************************************)
Fin(x) == [k |-> "fin", n |-> x]
NaN == [k |-> "nan", n |-> 0]
Inf == [k |-> "inf", n |-> 0]

\* x > c and x <= c for a float x and an integer c (both are False for nan)
FloatGt(x, c) == x.k = "inf" \/ (x.k = "fin" /\ x.n > c)
FloatLe(x, c) == x.k = "fin" /\ x.n <= c

\* what float("...") makes of the strings that occur in the requests
ParseFloat(str) ==
    CASE str = "nan" -> [exc |-> "none", val |-> NaN]
      [] str = "inf" -> [exc |-> "none", val |-> Inf]
      [] OTHER -> [exc |-> "ValueError", val |-> NaN]

\* Python's float(v): the value, or the exception it raises
Float(v) ==
    CASE v.t = "num" -> [exc |-> "none", val |-> Fin(v.n)]
      [] v.t = "bool" -> [exc |-> "none", val |-> Fin(v.n)]
      [] v.t = "nan" -> [exc |-> "none", val |-> NaN]
      [] v.t = "inf" -> [exc |-> "none", val |-> Inf]
      [] v.t = "bigint" -> [exc |-> "OverflowError", val |-> NaN]
      [] v.t = "str" -> ParseFloat(v.s)
      [] OTHER -> [exc |-> "TypeError", val |-> NaN]

(***************************************************************************)
(* The clock and get_season_from_month (api/predict.py)                     *)
(***************************************************************************)
get_season_from_month(month) ==
    IF month \in {12, 1, 2} THEN "Winter"
    ELSE IF month \in {3, 4, 5} THEN "Spring"
    ELSE IF month \in {6, 7, 8} THEN "Summer"
    ELSE IF month \in {9, 10, 11} THEN "Autumn"
    ELSE "Winter"

\* the clock counts months from January 2025
current_year(clock) == 2025 + clock \div 12
current_month(clock) == (clock % 12) + 1

(***************************************************************************)
(* get_fallback_prediction (api/predict.py)                                *)
(***************************************************************************)
\* rupees per kg
base_prices ==
    [Wheat |-> 45, Rice |-> 65, Corn |-> 35, Pulses |-> 85, Vegetables |-> 32,
     Fruits |-> 55, Sugarcane |-> 40, Cotton |-> 60, Soybean |-> 50]

\* multipliers in tenths
quality_multiplier == [Premium |-> 12, Grade_A |-> 10, Grade_B |-> 8, Grade_C |-> 6]

\* multipliers in hundredths
region_multiplier == [North |-> 100, South |-> 105, East |-> 95, West |-> 102]
season_multiplier == [Winter |-> 100, Spring |-> 110, Summer |-> 95, Autumn |-> 105]

\* dict.get(key, default) on a dict with string keys; the key is hashable
DictGet(d, key, default) ==
    IF key.t = "str" /\ key.s \in DOMAIN d THEN d[key.s] ELSE default

\* features.get(key, default)
FeatGet(features, key, default) ==
    IF features[key].t = "absent" THEN default ELSE features[key]

BasePriceDefault45(crop_type) == DictGet(base_prices, crop_type, 45)

\* base_prices.get(crop_type, 40.0)
BasePrice(crop_type) == DictGet(base_prices, crop_type, 40)

QualityMultiplierSteep(quality) ==
    DictGet([Premium |-> 12, Grade_A |-> 10, Grade_B |-> 8, Grade_C |-> 3], quality, 10)

QualityMultiplierFlat(quality) ==
    DictGet([Premium |-> 12, Grade_A |-> 10, Grade_B |-> 10, Grade_C |-> 6], quality, 10)

QualityMultiplier(quality) == DictGet(quality_multiplier, quality, 10)
RegionMultiplier(region) == DictGet(region_multiplier, region, 100)
SeasonMultiplierOfToday(season) ==
    DictGet(season_multiplier, Str(get_season_from_month(current_month(now))), 100)

SeasonMultiplier(season) == DictGet(season_multiplier, season, 100)

BulkFactorInclusive(quantity) ==
    IF FloatGt(quantity, 4999) THEN 90
    ELSE IF FloatGt(quantity, 1999) THEN 95
    ELSE 100

\* the bulk discount, in hundredths
BulkFactor(quantity) ==
    IF FloatGt(quantity, 5000) THEN 90
    ELSE IF FloatGt(quantity, 2000) THEN 95
    ELSE 100

(***************************************************************************)
(* The price is a chain of double multiplications followed by              *)
(* round(price, 2). The exact product of the factors has at most three     *)
(* decimals, and the double differs from it by a few ulps, so round()      *)
(* returns the nearest paise unless the exact product lies half way        *)
(* between two: there the result depends on which side the double fell.    *)
(* FloatBelowTie lists the factor tuples <<base, quality, region, season,  *)
(* bulk>> whose double product is below such a half-way value; of the      *)
(* other half-way products those that are a multiple of 1/8 are exact in   *)
(* binary (round() then rounds half to even) and the rest are above.       *)
(***************************************************************************)
FloatBelowTie ==
    {
      <<35, 6, 95, 100, 90>>, <<35, 6, 100, 95, 90>>, <<35, 10, 100, 110, 95>>, <<35, 10, 102, 95, 100>>,
      <<35, 10, 102, 100, 95>>, <<35, 12, 95, 95, 100>>, <<35, 12, 95, 100, 95>>, <<35, 12, 100, 95, 95>>,
      <<35, 12, 100, 105, 95>>, <<35, 12, 105, 95, 100>>, <<35, 12, 105, 100, 95>>, <<40, 10, 95, 105, 95>>,
      <<40, 10, 105, 95, 95>>, <<40, 10, 105, 105, 95>>, <<45, 6, 95, 110, 100>>, <<45, 6, 100, 110, 95>>,
      <<45, 10, 100, 105, 90>>, <<45, 10, 102, 95, 100>>, <<45, 10, 102, 100, 95>>, <<45, 10, 105, 100, 90>>,
      <<45, 12, 95, 95, 100>>, <<45, 12, 95, 100, 95>>, <<45, 12, 100, 95, 95>>, <<50, 6, 95, 95, 100>>,
      <<50, 6, 95, 100, 95>>, <<50, 6, 100, 95, 95>>, <<50, 6, 100, 105, 95>>, <<50, 6, 105, 95, 100>>,
      <<50, 6, 105, 100, 95>>, <<50, 8, 95, 105, 95>>, <<50, 8, 105, 95, 95>>, <<50, 8, 105, 105, 95>>,
      <<50, 10, 102, 95, 90>>, <<50, 12, 95, 95, 90>>, <<50, 12, 95, 110, 95>>, <<50, 12, 105, 95, 90>>,
      <<55, 6, 95, 100, 90>>, <<55, 6, 95, 110, 100>>, <<55, 6, 100, 95, 90>>, <<55, 6, 100, 105, 90>>,
      <<55, 6, 100, 110, 95>>, <<55, 6, 105, 100, 90>>, <<55, 10, 95, 100, 90>>, <<55, 10, 100, 95, 90>>,
      <<55, 12, 95, 95, 100>>, <<55, 12, 95, 100, 95>>, <<55, 12, 95, 105, 100>>, <<55, 12, 100, 95, 95>>,
      <<55, 12, 100, 105, 95>>, <<55, 12, 105, 95, 100>>, <<55, 12, 105, 100, 95>>, <<60, 10, 95, 95, 90>>,
      <<60, 10, 95, 110, 95>>, <<60, 10, 105, 95, 90>>, <<65, 6, 95, 100, 90>>, <<65, 6, 100, 95, 90>>,
      <<65, 10, 100, 110, 95>>, <<65, 10, 102, 95, 100>>, <<65, 10, 102, 100, 95>>, <<65, 10, 102, 105, 100>>,
      <<65, 12, 95, 95, 100>>, <<65, 12, 95, 100, 95>>, <<65, 12, 95, 105, 100>>, <<65, 12, 100, 95, 95>>,
      <<85, 6, 95, 100, 90>>, <<85, 6, 100, 95, 90>>, <<85, 10, 95, 100, 90>>, <<85, 10, 100, 95, 90>>,
      <<85, 10, 102, 95, 100>>, <<85, 10, 102, 100, 95>>, <<85, 12, 95, 95, 100>>, <<85, 12, 95, 100, 95>>,
      <<85, 12, 95, 105, 100>>, <<85, 12, 100, 95, 95>>
    }

Product(f) == f[1] * f[2] * f[3] * f[4] * f[5]

\* round(price, 2) of the double product of the factors f, in paise
Round2(f) ==
    LET ex == Product(f)
        lo == ex \div 100000
        rem == ex % 100000
    IN  IF rem < 50000 THEN lo
        ELSE IF rem > 50000 THEN lo + 1
        ELSE IF f \in FloatBelowTie THEN lo
        ELSE IF ex % 1250000 = 0 THEN (IF lo % 2 = 0 THEN lo ELSE lo + 1)
        ELSE lo + 1

\* the call's result: the price in paise, or the exception it raises
get_fallback_prediction(features) ==
    LET crop_type == FeatGet(features, "crop_type", Str("Wheat"))
        quality == FeatGet(features, "quality", Str("Grade_A"))
        region == FeatGet(features, "region", Str("North"))
        season == FeatGet(features, "season", Str("Winter"))
        quantity == IF features.quantity_kg.k = "absent" THEN Fin(1000)
                    ELSE features.quantity_kg
    IN  IF \E key \in {crop_type, quality, region, season} : key.t = "list"
        THEN [exc |-> "TypeError", price |-> 0]
        ELSE [exc |-> "none",
              price |-> Round2(<<BasePrice(crop_type), QualityMultiplier(quality),
                                 RegionMultiplier(region), SeasonMultiplier(season),
                                 BulkFactor(quantity)>>)]



(***************************************************************************)
(* PricePredictor (models/price_predictor.py)                              *)
(*                                                                         *)
(* A trained artifact is identified by the training table it was fitted    *)
(* on: Datasets are the tables data/crop_prices_final.csv may hold   *)
(* when a training runs, 0 is the state of a freshly constructed           *)
(* PricePredictor (no model, unfitted scaler, no encoders, no columns).    *)
(* Table 1 has the generator's columns (with a date, hence year and        *)
(* month); table 2 has no date and no weather column.                      *)
(***************************************************************************)
Datasets == {1, 2}

categorical_features == <<"crop_type", "region", "quality", "season", "weather", "market_demand">>
numerical_features == <<"quantity_kg", "year", "month">>

Range(seq) == {seq[i] : i \in 1..Len(seq)}

\* the columns of training table d, after PricePredictor.load_data
TableColumns(d) ==
    CASE d = 1 -> {"crop_type", "region", "quality", "season", "weather", "market_demand",
                   "quantity_kg", "year", "month", "market_price"}
      [] d = 2 -> {"crop_type", "region", "quality", "season", "market_demand",
                   "quantity_kg", "market_price"}
      [] OTHER -> {}

\* LabelEncoder.classes_ of each encoded column: the sorted distinct values
Classes(d) ==
    CASE d = 1 ->
           [crop_type |-> <<"Corn", "Cotton", "Fruits", "Pulses", "Rice", "Soybean",
                            "Spices", "Sugarcane", "Vegetables", "Wheat">>,
            region |-> <<"Central", "East", "North", "Northeast", "South", "West">>,
            quality |-> <<"Grade_A", "Grade_B", "Grade_C", "Premium">>,
            season |-> <<"Autumn", "Monsoon", "Spring", "Winter">>,
            weather |-> <<"Cloudy", "Cold", "Hot", "Humid", "Moderate", "Rainy", "Sunny">>,
            market_demand |-> <<"High", "Low", "Medium", "Very High", "Very Low">>]
      [] d = 2 ->
           [crop_type |-> <<"Rice", "Wheat">>,
            region |-> <<"North", "South">>,
            quality |-> <<"Grade_A", "Premium">>,
            season |-> <<"Summer", "Winter">>,
            market_demand |-> <<"High", "Medium">>]
      [] OTHER -> <<>>

\* the most frequent value of each encoded column of training table d
MostCommon(d) ==
    CASE d = 1 ->
           [crop_type |-> "Wheat", region |-> "North", quality |-> "Premium",
            season |-> "Winter", weather |-> "Sunny", market_demand |-> "Medium"]
      [] d = 2 ->
           [crop_type |-> "Wheat", region |-> "North", quality |-> "Premium",
            season |-> "Winter", market_demand |-> "High"]
      [] OTHER -> <<>>

InColumns(d, seq) == SelectSeq(seq, LAMBDA f : f \in TableColumns(d))

\* preprocess_data: self.feature_columns = categorical_features + numerical_features
FeatureColumns(d) == InColumns(d, categorical_features) \o InColumns(d, numerical_features)

\* the number of columns the StandardScaler was fitted on (0: not fitted)
ScalerFeatures(d) == Len(InColumns(d, numerical_features))

\* the mean of quantity_kg the scaler of table d has learned
ScalerMean(d) == IF d = 2 THEN 2500 ELSE 3500

Sgn(x) == IF x > 0 THEN 1 ELSE IF x < 0 THEN -1 ELSE 0

\* str(val) of a request value; only strings can be among the encoder's classes
PyStr(v) == IF v.t = "str" THEN v.s ELSE "None"

IndexOf(seq, x) == CHOOSE i \in 1..Len(seq) : seq[i] = x

\* a cell of the one-row feature frame: a number, nan, or a string left as it came
NumCell(x) == [k |-> "num", n |-> x]
NaNCell == [k |-> "nan", n |-> 0]
StrCell == [k |-> "str", n |-> 0]

\* predict, the encoding loop: a value among the encoder's classes gets its index,
\* any other value the index of encoder.classes_[0]
Encode(e, f, v) ==
    LET classes == Classes(e)[f]
    IN  IF PyStr(v) \in Range(classes) THEN NumCell(IndexOf(classes, PyStr(v)) - 1)
        ELSE NumCell(0)

\* float(feature_df[f].iloc[0]) of a numerical feature
NumericValue(features, f) ==
    IF f = "quantity_kg" THEN [exc |-> "none", val |-> features.quantity_kg]
    ELSE Float(features[f])

\* predict, the scaling loop: self.scaler.transform([[value]]) raises unless the
\* scaler was fitted on exactly one column, and on an infinite value; the bare
\* except then stores 0.  The scaled value is kept by its sign.
Scale(sc, features, f) ==
    LET x == NumericValue(features, f)
    IN  IF ScalerFeatures(sc) # 1 \/ x.exc # "none" \/ x.val.k = "inf" THEN NumCell(0)
        ELSE IF x.val.k = "nan" THEN NaNCell
        ELSE NumCell(Sgn(x.val.n - ScalerMean(sc)))

\* the fitted regressor of table d on a row X of numbers (X follows FeatureColumns(d)):
\* a fixed function of the row, within the range of the training prices (paise)
ModelPredict(d, X) ==
    LET w == <<211, 97, 401, 53, 13, 7, 5, 3, 2>>
        Sum[i \in 0..Len(X)] == IF i = 0 THEN 0 ELSE Sum[i - 1] + w[i] * X[i].n
    IN  2000 * d + 1000 + Sum[Len(X)]

Raise(e) == [exc |-> e, price |-> 0]

\* PricePredictor.predict on the predictor fields p
predict(p, input_features, accepts_nan) ==
    IF p.model = 0 THEN Raise("ValueError")
    ELSE
      LET encoders == IF p.label_encoders = 0 THEN {} ELSE DOMAIN Classes(p.label_encoders)
          cell(f) ==
              IF f \in Range(categorical_features)
              THEN IF f \in encoders THEN Encode(p.label_encoders, f, input_features[f])
                   ELSE StrCell
              ELSE Scale(p.scaler, input_features, f)
          cols == FeatureColumns(p.feature_columns)
          X == [i \in 1..Len(cols) |-> cell(cols[i])]
      IN  IF cols # FeatureColumns(p.model) THEN Raise("ValueError")
          ELSE IF \E i \in 1..Len(cols) : X[i].k = "str" THEN Raise("ValueError")
          ELSE IF (\E i \in 1..Len(cols) : X[i].k = "nan") /\ ~accepts_nan THEN Raise("ValueError")
          ELSE [exc |-> "none", price |-> ModelPredict(p.model, X)]

FreshPredictor ==
    [model |-> 0, scaler |-> 0, label_encoders |-> 0, feature_columns |-> 0,
     target_column |-> 0, training_metrics |-> 0]

\* the fields load_model assigns, in the order it assigns them
LoadOrder ==
    <<"model", "scaler", "label_encoders", "feature_columns", "target_column",
      "training_metrics">>

\* load_model run to its end without interruption, on the file holding artifact d
LoadedPredictor(d) == [f \in DOMAIN FreshPredictor |-> d]

(***************************************************************************)
(* POST /api/predict (api/predict.py)                                      *)
(***************************************************************************)
required_fields == <<"crop_type", "region", "quality", "quantity_kg">>

\* a request body: unparseable, a JSON value that is no object, or an object
NoFields ==
    [crop_type |-> Absent, region |-> Absent, quality |-> Absent, quantity_kg |-> Absent,
     season |-> Absent, weather |-> Absent, market_demand |-> Absent,
     year |-> Absent, month |-> Absent]
InvalidJson == [kind |-> "invalid", scalar |-> Null, data |-> NoFields]
ScalarBody(v) == [kind |-> "scalar", scalar |-> v, data |-> NoFields]
DictBody(d) == [kind |-> "dict", scalar |-> Null, data |-> d]

\* Python's truth value of the parsed body (JList is the empty array)
Truthy(body) ==
    IF body.kind = "dict" THEN \E f \in DOMAIN body.data : body.data[f].t # "absent"
    ELSE \/ body.scalar.t = "num" /\ body.scalar.n # 0
         \/ body.scalar.t = "bool" /\ body.scalar.n = 1
         \/ body.scalar.t = "str" /\ body.scalar.s # ""

\* field not in data, for the field names of required_fields: on a string it is a
\* substring test, on a number or a boolean it raises TypeError
MissingFields(body) ==
    IF body.kind = "dict"
    THEN SelectSeq(required_fields, LAMBDA f : body.data[f].t = "absent")
    ELSE required_fields

\* validate_input, the try block around float(data['quantity_kg']) <= 0
ValidateQuantity(quantity_kg) ==
    LET x == Float(quantity_kg)
    IN  IF x.exc \in {"ValueError", "TypeError"}
        THEN [exc |-> "none", ok |-> FALSE, message |-> "Quantity must be a number"]
        ELSE IF x.exc # "none" THEN [exc |-> x.exc, ok |-> FALSE, message |-> ""]
        ELSE IF FloatLe(x.val, 0)
        THEN [exc |-> "none", ok |-> FALSE, message |-> "Quantity must be positive"]
        ELSE [exc |-> "none", ok |-> TRUE, message |-> "Valid"]

\* validate_input: (is_valid, message), or the exception that escapes it
validate_input(body) ==
    IF body.kind = "scalar" /\ body.scalar.t \in {"num", "bool"}
    THEN [exc |-> "TypeError", ok |-> FALSE, message |-> ""]
    ELSE IF MissingFields(body) # <<>>
    THEN [exc |-> "none", ok |-> FALSE, message |-> "Missing required fields"]
    ELSE ValidateQuantity(body.data.quantity_kg)

\* data.get(key, default)
DataGet(data, key, default) == IF data[key].t = "absent" THEN default ELSE data[key]

PrepareFeaturesClockSeason(data, clock) ==
    [crop_type |-> DataGet(data, "crop_type", Null),
     region |-> DataGet(data, "region", Null),
     quality |-> DataGet(data, "quality", Null),
     quantity_kg |-> Float(DataGet(data, "quantity_kg", Num(1000))).val,
     season |-> Str(get_season_from_month(current_month(clock))),
     weather |-> DataGet(data, "weather", Str("Normal")),
     market_demand |-> DataGet(data, "market_demand", Str("Medium")),
     year |-> DataGet(data, "year", Num(current_year(clock))),
     month |-> DataGet(data, "month", Num(current_month(clock)))]

\* prepare_features at clock reading `clock` (data has passed validate_input)
prepare_features(data, clock) ==
    [crop_type |-> DataGet(data, "crop_type", Null),
     region |-> DataGet(data, "region", Null),
     quality |-> DataGet(data, "quality", Null),
     quantity_kg |-> Float(DataGet(data, "quantity_kg", Num(1000))).val,
     season |-> DataGet(data, "season", Str(get_season_from_month(current_month(clock)))),
     weather |-> DataGet(data, "weather", Str("Normal")),
     market_demand |-> DataGet(data, "market_demand", Str("Medium")),
     year |-> DataGet(data, "year", Num(current_year(clock))),
     month |-> DataGet(data, "month", Num(current_month(clock)))]

NoFeatures ==
    [crop_type |-> Absent, region |-> Absent, quality |-> Absent,
     quantity_kg |-> [k |-> "absent", n |-> 0],
     season |-> Absent, weather |-> Absent, market_demand |-> Absent,
     year |-> Absent, month |-> Absent]

\* predicted_price * quantity_kg, kept as its two factors
TotalValue(price, quantity) ==
    IF quantity.k = "fin" THEN [k |-> "fin", paise |-> price, kg |-> quantity.n]
    ELSE [k |-> quantity.k, paise |-> 0, kg |-> 0]

NoTotal == [k |-> "absent", paise |-> 0, kg |-> 0]

\* the error responses: {'success': False, 'error': ...} with the status
ErrorResponse(status) ==
    [status |-> status, success |-> FALSE, keys |-> {"success", "error"},
     predicted_price |-> 0, confidence |-> 0, method |-> "none",
     total_value |-> NoTotal, input_features |-> NoFeatures, model_loaded |-> FALSE]

\* the 200 response; confidence in hundredths
Success(price, confidence, method, features) ==
    [status |-> 200, success |-> TRUE,
     keys |-> {"success", "predicted_price", "confidence", "method", "currency", "unit",
               "total_value", "total_value_unit", "input_features", "timestamp"},
     predicted_price |-> price, confidence |-> confidence, method |-> method,
     total_value |-> TotalValue(price, features.quantity_kg),
     input_features |-> features, model_loaded |-> FALSE]

\* the branch "Make prediction" and the response built from it; an exception of
\* get_fallback_prediction reaches the handler's outer except
MakePrediction(features, p, loaded, accepts_nan) ==
    LET ml == predict(p, features, accepts_nan)
        fb == get_fallback_prediction(features)
    IN  IF loaded /\ ml.exc = "none" THEN Success(ml.price, 85, "ml_model", features)
        ELSE IF fb.exc = "none" THEN Success(fb.price, 65, "fallback", features)
        ELSE ErrorResponse(500)

\* request.get_json(): the parsed body; a body that does not parse raises
\* werkzeug's BadRequest, an Exception
get_json(body) ==
    IF body.kind = "invalid" THEN [exc |-> "BadRequest", data |-> body]
    ELSE [exc |-> "none", data |-> body]

\* predict_price_route: the response to a request with this body; whatever is
\* raised inside its try block is answered 500 by "except Exception"
predict_price_route(body, p, loaded, clock, accepts_nan) ==
    IF get_json(body).exc # "none" THEN ErrorResponse(500)
    ELSE IF ~Truthy(body) THEN ErrorResponse(400)
    ELSE LET v == validate_input(body)
         IN  IF v.exc # "none" THEN ErrorResponse(500)
             ELSE IF ~v.ok THEN ErrorResponse(400)
             ELSE MakePrediction(prepare_features(body.data, clock), p, loaded, accepts_nan)
(***************************************************************************)
(* DataValidator (data/validate_data.py)                                   *)
(*                                                                         *)
(* The table (self.df, and the CSV file at self.filepath) is a sequence of *)
(* rows.  A categorical cell is a string, NA when it is missing; a numeric *)
(* cell is Fin(n), or NaN when it is missing.  market_price is kept in     *)
(* half rupees, so that the median of whole-rupee prices is an integer.    *)
(* Series.fillna(..., inplace=True) fills the column of self.df.           *)
(***************************************************************************)
NA == "<NA>"

\* the columns of the table, in the order of the file
Columns ==
    <<"crop_type", "region", "quality", "quantity_kg", "market_price", "season",
      "weather", "market_demand">>

numeric_columns == {"quantity_kg", "market_price"}

\* df[col].isnull() of one cell
IsNull(col, cell) == IF col \in numeric_columns THEN cell = NaN ELSE cell = NA

\* the order of the strings of the tables (Python compares them by code point)
StrOrder ==
    <<"Central", "Grade_A", "High", "InvalidCrop", "Medium", "Monsoon", "North",
      "Premium", "Rice", "South", "Spices", "Sunny", "Unknown", "Wheat", "Winter">>

\* the sort key of a cell that is not missing
CellKey(col, cell) == IF col \in numeric_columns THEN cell.n ELSE IndexOf(StrOrder, cell)

\* the cells of column col that are not missing
Present(table, col) == {i \in 1..Len(table) : ~IsNull(col, table[i][col])}

Occurrences(table, col, cell) == Cardinality({i \in 1..Len(table) : table[i][col] = cell})

\* df[col].mode(): the most frequent values, sorted; missing cells do not count
Modes(table, col) ==
    {table[i][col] : i \in {i \in Present(table, col) :
        \A j \in Present(table, col) :
            Occurrences(table, col, table[j][col]) <= Occurrences(table, col, table[i][col])}}

\* df[col].mode()[0] of a column with a cell that is not missing
Mode(table, col) ==
    CHOOSE m \in Modes(table, col) :
        \A o \in Modes(table, col) : CellKey(col, m) <= CellKey(col, o)

\* the k-th smallest of the numbers xs[i], i in idx
KthSmallest(xs, idx, k) ==
    CHOOSE v \in {xs[i] : i \in idx} :
        /\ Cardinality({i \in idx : xs[i] < v}) < k
        /\ k <= Cardinality({i \in idx : xs[i] <= v})

\* df['market_price'], as numbers (0 stands in a missing cell, which idx leaves out)
Prices(table) == [i \in 1..Len(table) |-> table[i].market_price.n]

\* df['market_price'].median(): missing cells are skipped; nan when all are missing
Median(table) ==
    LET idx == Present(table, "market_price")
        n == Cardinality(idx)
        xs == Prices(table)
    IN  IF n = 0 THEN NaN
        ELSE IF n % 2 = 1 THEN Fin(KthSmallest(xs, idx, (n + 1) \div 2))
        ELSE Fin((KthSmallest(xs, idx, n \div 2) + KthSmallest(xs, idx, n \div 2 + 1)) \div 2)

\* 4 * df['market_price'].quantile(num / 4), by linear interpolation between the
\* order statistics around position (n - 1) * num / 4 (there is a price present)
Quantile4(table, num) ==
    LET idx == Present(table, "market_price")
        xs == Prices(table)
        pos4 == (Cardinality(idx) - 1) * num
        lo == pos4 \div 4
        fr == pos4 % 4
        a == KthSmallest(xs, idx, lo + 1)
        b == IF fr = 0 THEN a ELSE KthSmallest(xs, idx, lo + 2)
    IN  4 * a + fr * (b - a)

\* series.fillna(value, inplace=True) on column col
FillNa(table, col, value) ==
    [i \in 1..Len(table) |->
        IF IsNull(col, table[i][col]) THEN [table[i] EXCEPT ![col] = value] ELSE table[i]]

\* the check records appended to quality_report['checks']
Check(name, passed) == [name |-> name, passed |-> passed]

\* the result of a check method: the table and the report it leaves, and the
\* exception that ended it ("none" when it returned)
Outcome(exc, table, report) == [exc |-> exc, df |-> table, report |-> report]

Found(report, n) == [report EXCEPT !.issues_found = @ + n]
Fixed(report, n) == [report EXCEPT !.issues_fixed = @ + n]
Checked(report, check) == [report EXCEPT !.checks = Append(@, check)]

\* check_missing_values, the loop over the columns with missing cells from the
\* k-th column on: the fill value of each, mode()[0] raising KeyError on a
\* column that is missing in every row
RECURSIVE FillMissing(_, _, _)
FillMissing(table, report, k) ==
    IF k > Len(Columns) THEN Outcome("none", table, report)
    ELSE LET col == Columns[k]
         IN  IF \A i \in 1..Len(table) : ~IsNull(col, table[i][col])
             THEN FillMissing(table, report, k + 1)
             ELSE IF col = "market_price"
             THEN FillMissing(FillNa(table, col, Median(table)), Fixed(report, 1), k + 1)
             ELSE IF col \in {"weather", "market_demand", "season"}
             THEN FillMissing(FillNa(table, col, "Unknown"), Fixed(report, 1), k + 1)
             ELSE IF Present(table, col) = {} THEN Outcome("KeyError", table, report)
             ELSE FillMissing(FillNa(table, col, Mode(table, col)), Fixed(report, 1), k + 1)

AnyMissing(table) == \E i \in 1..Len(table) : \E col \in Range(Columns) : IsNull(col, table[i][col])

check_missing_values(table, report) ==
    IF AnyMissing(table)
    THEN LET filled == FillMissing(table, Found(report, 1), 1)
         IN  IF filled.exc # "none" THEN filled
             ELSE Outcome("none", filled.df, Checked(filled.report, Check("Missing Values", FALSE)))
    ELSE Outcome("none", table, Checked(report, Check("Missing Values", TRUE)))

\* df.duplicated(): the row equals an earlier row in every column
Duplicated(table, i) == \E j \in 1..(i - 1) : table[j] = table[i]

DropDuplicatesKeepLast(table) ==
    LET kept[i \in 0..Len(table)] ==
            IF i = 0 THEN <<>>
            ELSE IF \E j \in (i + 1)..Len(table) : table[j] = table[i] THEN kept[i - 1]
            ELSE Append(kept[i - 1], table[i])
    IN  kept[Len(table)]

\* df.drop_duplicates(): the first row of every group of equal rows, in order
DropDuplicates(table) ==
    LET kept[i \in 0..Len(table)] ==
            IF i = 0 THEN <<>>
            ELSE IF Duplicated(table, i) THEN kept[i - 1]
            ELSE Append(kept[i - 1], table[i])
    IN  kept[Len(table)]

check_duplicates(table, report) ==
    IF \E i \in 1..Len(table) : Duplicated(table, i)
    THEN Outcome("none", DropDuplicates(table),
                 Checked(Fixed(Found(report, 1), 1), Check("Duplicate Records", FALSE)))
    ELSE Outcome("none", table, Checked(report, Check("Duplicate Records", TRUE)))

InvalidQuantityInclusive(quantity) == FloatLe(quantity, 0) \/ FloatGt(quantity, 99999)

\* (df['quantity_kg'] <= 0) | (df['quantity_kg'] > 100000) of one cell
InvalidQuantity(quantity) == FloatLe(quantity, 0) \/ FloatGt(quantity, 100000)

check_quantity_validity(table, report) ==
    IF \E i \in 1..Len(table) : InvalidQuantity(table[i].quantity_kg)
    THEN Outcome("none", SelectSeq(table, LAMBDA r : ~InvalidQuantity(r.quantity_kg)),
                 Checked(Fixed(Found(report, 1), 1), Check("Quantity Validity", FALSE)))
    ELSE Outcome("none", table, Checked(report, Check("Quantity Validity", TRUE)))

\* check_categorical_values: the columns checked, in the order of the dict
valid_columns == <<"crop_type", "region", "quality", "season", "market_demand">>

ValidValuesNoMonsoon ==
    [crop_type |-> {"Wheat", "Rice", "Corn", "Pulses", "Sugarcane", "Cotton", "Soybean",
                    "Vegetables", "Fruits", "Spices"},
     region |-> {"North", "South", "East", "West", "Central", "Northeast"},
     quality |-> {"Premium", "Grade_A", "Grade_B", "Grade_C"},
     season |-> {"Winter", "Spring", "Summer", "Autumn"},
     market_demand |-> {"Very High", "High", "Medium", "Low", "Very Low"}]

valid_values ==
    [crop_type |-> {"Wheat", "Rice", "Corn", "Pulses", "Sugarcane", "Cotton", "Soybean",
                    "Vegetables", "Fruits", "Spices"},
     region |-> {"North", "South", "East", "West", "Central", "Northeast"},
     quality |-> {"Premium", "Grade_A", "Grade_B", "Grade_C"},
     season |-> {"Winter", "Spring", "Summer", "Autumn", "Monsoon"},
     market_demand |-> {"Very High", "High", "Medium", "Low", "Very Low"}]

\* the loop over valid_values from the k-th column on; a missing cell is in no list
RECURSIVE DropInvalid(_, _, _)
DropInvalid(table, report, k) ==
    IF k > Len(valid_columns) THEN Outcome("none", table, report)
    ELSE LET col == valid_columns[k]
             valid(r) == r[col] \in valid_values[col]
         IN  IF \E i \in 1..Len(table) : ~valid(table[i])
             THEN DropInvalid(SelectSeq(table, valid), Fixed(Found(report, 1), 1), k + 1)
             ELSE DropInvalid(table, report, k + 1)

check_categorical_values(table, report) ==
    LET dropped == DropInvalid(table, report, 1)
    IN  Outcome("none", dropped.df,
                Checked(dropped.report,
                        Check("Categorical Values", dropped.report.issues_found = report.issues_found)))

OutlierInclusive(table, price) ==
    /\ price # NaN
    /\ Present(table, "market_price") # {}
    /\ LET Q1 == Quantile4(table, 1)
           Q3 == Quantile4(table, 3)
           IQR == Q3 - Q1
       IN  \/ 8 * price.n <= 2 * Q1 - 3 * IQR
           \/ 8 * price.n >= 2 * Q3 + 3 * IQR

\* market_price < Q1 - 1.5 * IQR or market_price > Q3 + 1.5 * IQR, all times 8;
\* no price is an outlier when the bounds are nan (no price present)
Outlier(table, price) ==
    /\ price # NaN
    /\ Present(table, "market_price") # {}
    /\ LET Q1 == Quantile4(table, 1)
           Q3 == Quantile4(table, 3)
           IQR == Q3 - Q1
       IN  \/ 8 * price.n < 2 * Q1 - 3 * IQR
           \/ 8 * price.n > 2 * Q3 + 3 * IQR

\* check_price_outliers(method='iqr', threshold=1.5)
check_price_outliers(table, report) ==
    IF \E i \in 1..Len(table) : Outlier(table, table[i].market_price)
    THEN Outcome("none", SelectSeq(table, LAMBDA r : ~Outlier(table, r.market_price)),
                 Checked(Fixed(Found(report, 1), 1), Check("Price Outliers", FALSE)))
    ELSE Outcome("none", table, Checked(report, Check("Price Outliers", TRUE)))

\* check_data_distribution: region_dist.min() / len(self.df) raises
\* ZeroDivisionError on an empty table (the minimum of no counts is nan); the
\* check fails when the rarest region present has less than 5% of the rows
check_data_distribution(table, report) ==
    IF Len(table) = 0 THEN Outcome("ZeroDivisionError", table, report)
    ELSE LET regions == {table[i].region : i \in Present(table, "region")}
             unbalanced == \E r \in regions : Occurrences(table, "region", r) * 100 < 5 * Len(table)
         IN  Outcome("none", table, Checked(report, Check("Data Distribution", ~unbalanced)))

\* DataValidator.__init__: self.quality_report
NewReport == [checks |-> <<>>, issues_found |-> 0, issues_fixed |-> 0]

\* the checks of validate(), in the order it runs them
Checks ==
    <<"check_missing_values", "check_duplicates", "check_quantity_validity",
      "check_categorical_values", "check_price_outliers", "check_data_distribution">>

RunCheck(name, table, report) ==
    CASE name = "check_missing_values" -> check_missing_values(table, report)
      [] name = "check_duplicates" -> check_duplicates(table, report)
      [] name = "check_quantity_validity" -> check_quantity_validity(table, report)
      [] name = "check_categorical_values" -> check_categorical_values(table, report)
      [] name = "check_price_outliers" -> check_price_outliers(table, report)
      [] OTHER -> check_data_distribution(table, report)

\* no DataValidator has been constructed
NoValidator ==
    /\ csv_file = <<>>
    /\ df = <<>>
    /\ quality_report = NewReport
    /\ report_file = NewReport
    /\ vpc = "none"

(***************************************************************************)
(* DataPipeline (data/run_pipeline.py): four steps, each catching every    *)
(* exception and returning True or False; the third runs a DataValidator   *)
(* on the combined file.                                                   *)
(***************************************************************************)
\* run_complete_pipeline: the names of the list `steps`, in its order
steps == <<"Generate Data", "Merge Data", "Validate Data", "Generate Statistics">>

\* pipeline_log.json before any run has saved it
NoLogFile == [status |-> "none", steps_completed |-> <<>>]

\* DataPipeline.__init__ and the start of run_complete_pipeline: self.log,
\* success_count, the step the loop is at, the value step_func() returned, the
\* steps called so far and the value run_complete_pipeline returned
NewPipeline ==
    [log |-> [status |-> "running", steps_completed |-> <<>>],
     log_file |-> NoLogFile,
     pc |-> "loop", step |-> 1, success_count |-> 0, returned |-> FALSE,
     calls |-> <<>>, result |-> "none"]

\* no DataPipeline has been constructed
NoPipeline == [NewPipeline EXCEPT !.pc = "none"]

\* self.log_step(step_name, status, details)
log_step(p, step_name, status) ==
    [p EXCEPT !.log.steps_completed = Append(@, [name |-> step_name, status |-> status])]

\* self.save_log()
save_log(p) == [p EXCEPT !.log_file = p.log]

(***************************************************************************)
(* Direct calls of get_fallback_prediction on every combination of tabled  *)
(* and untabled categorical values, around the bulk thresholds.            *)
(***************************************************************************)
FbCrops ==
    {Str(c) : c \in DOMAIN base_prices} \cup {Str("Spices"), Str("InvalidCrop123"), Null}
FbQualities == {Str(q) : q \in DOMAIN quality_multiplier} \cup {Str("InvalidQuality")}
FbRegions == {Str(r) : r \in DOMAIN region_multiplier} \cup {Str("Central")}
FbSeasons == {Str(s) : s \in DOMAIN season_multiplier} \cup {Str("Monsoon")}
FbQuantities == {1, 2000, 2001, 3500, 5000, 5001, 100000}

FbInputs ==
    {[NoFeatures EXCEPT !.crop_type = c, !.quality = q, !.region = r, !.season = s,
                        !.quantity_kg = Fin(n)] :
        c \in FbCrops, q \in FbQualities, r \in FbRegions, s \in FbSeasons,
        n \in FbQuantities}

NotCalled == [exc |-> "not called", price |-> 0]

\* price = get_fallback_prediction(features)
FallbackCall ==
    /\ fb_result = NotCalled
    /\ fb_result' = get_fallback_prediction(fb_features)
    /\ UNCHANGED <<fb_features, model_loaded, predictor, model_file, trainer, now,
                   nan_ok, log,
                   validator_vars, pipeline, data_files>>

(***************************************************************************)
(* The service (app.py): request handlers on the shared predictor          *)
(***************************************************************************)
MaxPredicts == 2
MaxTrains == 1
StartClock == 10
MaxClock == 12

\* the request bodies: one well-formed payload and its variations
Payload ==
    [NoFields EXCEPT !.crop_type = Str("Wheat"), !.region = Str("North"),
                     !.quality = Str("Premium"), !.quantity_kg = Num(1000)]

Quantities ==
    {Num(0), Num(-5), Num(3000), Num(999999999), BigInt, Null,
     Str("abc"), Str("nan")}

Payloads ==
    {Payload}
      \cup {[Payload EXCEPT !.crop_type = v] : v \in {Str("InvalidCrop123"), JList}}
      \cup {[Payload EXCEPT !.region = v] : v \in {Str("InvalidRegion")}}
      \cup {[Payload EXCEPT !.quality = v] : v \in {Str("InvalidQuality")}}
      \cup {[Payload EXCEPT !.quantity_kg = v] : v \in Quantities}
      \cup {[Payload EXCEPT !.season = Str("Winter"), !.weather = Str("Cold"),
                            !.market_demand = Str("High")]}
      \cup {[Payload EXCEPT !.season = Str("Winter"), !.year = Num(2025),
                            !.month = Num(12)]}
      \cup {[Payload EXCEPT !.quality = Absent, !.quantity_kg = Absent]}
      \cup {NoFields}

Bodies ==
    {DictBody(d) : d \in Payloads}
      \cup {ScalarBody(v) : v \in {Null, Num(5)}}
      \cup {InvalidJson}

\* a request answered: its body, its response and, for a training, the artifact
\* it saved
Entry(kind, body, resp) == [kind |-> kind, body |-> body, resp |-> resp, saved |-> 0]

Count(kind) == Cardinality({i \in 1..Len(log) : log[i].kind = kind})

\* a request thread that is not handling POST /api/train
Idle == [pc |-> "idle", saved |-> 0, model_data |-> 0, next |-> 0]

\* n request threads, none of them handling POST /api/train
NoTrainers(n) == [t \in 1..n |-> Idle]

\* POST /api/predict with one of these bodies, handled on the predictor and
\* model_loaded as they are now
PredictOf(bodies, max) ==
    /\ Count("predict") < max
    /\ \E body \in bodies :
         log' = Append(log, Entry("predict", body,
                   predict_price_route(body, predictor, model_loaded, now, nan_ok)))
    /\ UNCHANGED <<model_loaded, predictor, model_file, trainer, now, nan_ok,
                   fb_features, fb_result,
                   validator_vars, pipeline, data_files>>

Predict == PredictOf(Bodies, MaxPredicts)

\* a month passes
Tick ==
    /\ now < MaxClock
    /\ now' = now + 1
    /\ UNCHANGED <<model_loaded, predictor, model_file, trainer, nan_ok, log,
                   fb_features, fb_result,
                   validator_vars, pipeline, data_files>>

\* POST /api/train arrives at thread t (the t-th such request): "Starting model
\* training..."
TrainStart(t) ==
    /\ trainer[t].pc = "idle"
    /\ Count("train_start") = t - 1
    /\ trainer' = [trainer EXCEPT ![t].pc = "train"]
    /\ log' = Append(log, Entry("train_start", InvalidJson, ErrorResponse(0)))
    /\ UNCHANGED <<model_loaded, predictor, model_file, now, nan_ok, fb_features, fb_result,
                   validator_vars, pipeline, data_files>>

\* train_and_save_model() fits a new PricePredictor on table d and saves it
TrainAndSave(t, d) ==
    /\ trainer[t].pc = "train"
    /\ model_file' = d
    /\ trainer' = [trainer EXCEPT ![t].pc = "load", ![t].saved = d]
    /\ UNCHANGED <<model_loaded, predictor, now, nan_ok, log, fb_features, fb_result,
                   validator_vars, pipeline, data_files>>

TrainFailedUnloads(t) ==
    /\ trainer[t].pc = "train"
    /\ trainer' = [trainer EXCEPT ![t] = Idle]
    /\ model_loaded' = FALSE
    /\ log' = Append(log, Entry("train", InvalidJson, ErrorResponse(500)))
    /\ UNCHANGED <<predictor, model_file, now, nan_ok, fb_features, fb_result,
                   validator_vars, pipeline, data_files>>

\* train_and_save_model() returns False or raises: the 500 response
TrainFailed(t) ==
    /\ trainer[t].pc = "train"
    /\ trainer' = [trainer EXCEPT ![t] = Idle]
    /\ log' = Append(log, Entry("train", InvalidJson, ErrorResponse(500)))
    /\ UNCHANGED <<model_loaded, predictor, model_file, now, nan_ok, fb_features, fb_result,
                   validator_vars, pipeline, data_files>>

\* predictor.load_model(): joblib.load of the file
LoadRead(t) ==
    /\ trainer[t].pc = "load"
    /\ trainer' = [trainer EXCEPT ![t].pc = "assign", ![t].model_data = model_file,
                                  ![t].next = 1]
    /\ UNCHANGED <<model_loaded, predictor, model_file, now, nan_ok, log,
                   fb_features, fb_result,
                   validator_vars, pipeline, data_files>>

\* predictor.load_model(): the next self.<field> = model_data[...]
LoadAssign(t) ==
    /\ trainer[t].pc = "assign"
    /\ predictor' = [predictor EXCEPT ![LoadOrder[trainer[t].next]] = trainer[t].model_data]
    /\ trainer' = IF trainer[t].next = Len(LoadOrder) THEN [trainer EXCEPT ![t].pc = "loaded"]
                  ELSE [trainer EXCEPT ![t].next = @ + 1]
    /\ UNCHANGED <<model_loaded, model_file, now, nan_ok, log, fb_features, fb_result,
                   validator_vars, pipeline, data_files>>

TrainOk(loaded) ==
    [ErrorResponse(200) EXCEPT !.success = TRUE,
                               !.keys = {"success", "message", "model_loaded"},
                               !.model_loaded = loaded]

\* model_loaded = predictor.load_model() returns True; the 200 response
TrainRespond(t) ==
    /\ trainer[t].pc = "loaded"
    /\ model_loaded' = TRUE
    /\ trainer' = [trainer EXCEPT ![t] = Idle]
    /\ log' = Append(log, [Entry("train", InvalidJson, TrainOk(TRUE))
                              EXCEPT !.saved = trainer[t].saved])
    /\ UNCHANGED <<predictor, model_file, now, nan_ok, fb_features, fb_result,
                   validator_vars, pipeline, data_files>>

\* load_model_on_startup(): no file, or the file's artifact (of table 1) loaded
Init ==
    /\ model_file \in {0, 1}
    /\ predictor = IF model_file = 0 THEN FreshPredictor ELSE LoadedPredictor(model_file)
    /\ model_loaded = (model_file # 0)
    /\ trainer = NoTrainers(MaxTrains)
    /\ now = StartClock
    /\ nan_ok \in BOOLEAN
    /\ log = <<>>
    /\ fb_features = NoFeatures
    /\ fb_result = NotCalled
    /\ NoValidator
    /\ pipeline = NoPipeline
    /\ data_files = <<>>

Next ==
    \/ Predict
    \/ Tick
    \/ \E t \in DOMAIN trainer : TrainStart(t)
    \/ \E t \in DOMAIN trainer : \E d \in Datasets : TrainAndSave(t, d)
    \/ \E t \in DOMAIN trainer : TrainFailed(t)
    \/ \E t \in DOMAIN trainer : LoadRead(t)
    \/ \E t \in DOMAIN trainer : LoadAssign(t)
    \/ \E t \in DOMAIN trainer : TrainRespond(t)

Spec == Init /\ [][Next]_vars

(***************************************************************************)
(* Two POST /api/train requests handled at the same time, each on its own  *)
(* request thread of the development server, with predictions in between.  *)
(***************************************************************************)
MaxTrainers == 2
MaxTrainerPredicts == 2

InitTrainers ==
    /\ model_file \in {0, 1}
    /\ predictor = IF model_file = 0 THEN FreshPredictor ELSE LoadedPredictor(model_file)
    /\ model_loaded = (model_file # 0)
    /\ trainer = NoTrainers(MaxTrainers)
    /\ now = StartClock
    /\ nan_ok = FALSE
    /\ log = <<>>
    /\ fb_features = NoFeatures
    /\ fb_result = NotCalled
    /\ NoValidator
    /\ pipeline = NoPipeline
    /\ data_files = <<>>

NextTrainers ==
    \/ PredictOf({DictBody(Payload)}, MaxTrainerPredicts)
    \/ \E t \in DOMAIN trainer : TrainStart(t)
    \/ \E t \in DOMAIN trainer : \E d \in Datasets : TrainAndSave(t, d)
    \/ \E t \in DOMAIN trainer : TrainFailed(t)
    \/ \E t \in DOMAIN trainer : LoadRead(t)
    \/ \E t \in DOMAIN trainer : LoadAssign(t)
    \/ \E t \in DOMAIN trainer : TrainRespond(t)

SpecTrainers == InitTrainers /\ [][NextTrainers]_vars

(***************************************************************************)
(* PricePredictor.load_model() on whatever file is at model_path.  In the  *)
(* specifications above the file is one that save_model wrote and is named *)
(* by its artifact; here model_file spells the file out: whether it exists,*)
(* whether joblib can read it, and the entries of the dict it holds.       *)
(***************************************************************************)
ModelFiles ==
    {[exists |-> e, readable |-> FALSE, data |-> <<>>] : e \in BOOLEAN}
      \cup {[exists |-> TRUE, readable |-> TRUE, data |-> [k \in keys |-> d]] :
               keys \in SUBSET Range(LoadOrder), d \in Datasets}

\* load_model: the predictor it leaves and the value it returns.  The entries are
\* read and assigned in LoadOrder; the first one missing raises KeyError, which
\* the except clause turns into False; training_metrics is read with .get
load_model(self, file) ==
    IF ~file.exists \/ ~file.readable THEN [self |-> self, ret |-> FALSE]
    ELSE LET has(k) == LoadOrder[k] \in DOMAIN file.data
             required == {k \in 1..Len(LoadOrder) : LoadOrder[k] # "training_metrics"}
             reached(k) == \A j \in required : j < k => has(j)
             assigned == {LoadOrder[k] : k \in {j \in 1..Len(LoadOrder) :
                                                  reached(j) /\ (j \in required => has(j))}}
         IN  [self |-> [f \in DOMAIN self |->
                          IF f \notin assigned THEN self[f]
                          ELSE IF f \in DOMAIN file.data THEN file.data[f] ELSE 0],
              ret |-> \A j \in required : has(j)]

\* model_loaded = predictor.load_model()
LoadModel ==
    /\ predictor' = load_model(predictor, model_file).self
    /\ model_loaded' = load_model(predictor, model_file).ret
    /\ UNCHANGED <<model_file, trainer, now, nan_ok, log, fb_features, fb_result,
                   validator_vars, pipeline, data_files>>

InitLoad ==
    /\ model_file \in ModelFiles
    /\ predictor \in {FreshPredictor} \cup {LoadedPredictor(d) : d \in Datasets}
    /\ model_loaded = (predictor # FreshPredictor)
    /\ trainer = NoTrainers(MaxTrains)
    /\ now = StartClock
    /\ nan_ok = FALSE
    /\ log = <<>>
    /\ fb_features = NoFeatures
    /\ fb_result = NotCalled
    /\ NoValidator
    /\ pipeline = NoPipeline
    /\ data_files = <<>>

SpecLoad == InitLoad /\ [][LoadModel]_vars

InitFallback ==
    /\ model_file = 0
    /\ predictor = FreshPredictor
    /\ model_loaded = FALSE
    /\ trainer = NoTrainers(MaxTrains)
    /\ now = StartClock
    /\ nan_ok = FALSE
    /\ log = <<>>
    /\ fb_features \in FbInputs
    /\ fb_result = NotCalled
    /\ NoValidator
    /\ pipeline = NoPipeline
    /\ data_files = <<>>

NextFallback == FallbackCall

SpecFallback == InitFallback /\ [][NextFallback]_vars

(***************************************************************************)
(* DataValidator(filepath) on a CSV file: validate(), or load_data()        *)
(* followed by one of the check methods                                    *)
(***************************************************************************)
MaxRows == 4

BaseRow ==
    [crop_type |-> "Wheat", region |-> "North", quality |-> "Premium",
     quantity_kg |-> Fin(1000), market_price |-> Fin(80), season |-> "Winter",
     weather |-> "Sunny", market_demand |-> "High"]

\* the rows of the files: a clean row and rows with one or more defects
RowPool ==
    {BaseRow,
     [BaseRow EXCEPT !.quantity_kg = Fin(100000), !.market_price = Fin(88),
                     !.quality = "Grade_A"],
     [BaseRow EXCEPT !.quantity_kg = Fin(0), !.region = "South"],
     [BaseRow EXCEPT !.quantity_kg = Fin(100001), !.crop_type = "Rice"],
     [BaseRow EXCEPT !.crop_type = "InvalidCrop", !.market_price = Fin(84)],
     [BaseRow EXCEPT !.quantity_kg = NaN, !.crop_type = "Spices", !.region = "Central",
                     !.season = "Monsoon"],
     [BaseRow EXCEPT !.season = NA, !.weather = NA, !.market_price = NaN,
                     !.market_demand = "Medium"],
     [BaseRow EXCEPT !.market_price = Fin(2000), !.region = NA]}

Tables == UNION {[1..n -> RowPool] : n \in 0..MaxRows}

\* self.load_data(): self.df = pd.read_csv(self.filepath)
LoadData ==
    /\ vpc = "init"
    /\ df' = csv_file
    /\ vpc' = "loaded"
    /\ UNCHANGED <<csv_file, quality_report, report_file, service_vars, pipeline, data_files>>

\* self.<Checks[k]>(): as the next check of validate(), or called by itself on the
\* loaded table
CheckStep(k) ==
    /\ vpc \in {"loaded", IF k = 1 THEN "loaded" ELSE Checks[k - 1]}
    /\ LET out == RunCheck(Checks[k], df, quality_report)
       IN  /\ df' = out.df
           /\ quality_report' = out.report
           /\ vpc' = IF out.exc # "none" THEN "crashed"
                     ELSE IF vpc = "loaded" /\ k > 1 THEN "returned"
                     ELSE Checks[k]
    /\ UNCHANGED <<csv_file, report_file, service_vars, pipeline, data_files>>

\* validate(): self.df.to_csv(self.filepath, index=False)
ToCsv ==
    /\ vpc = "check_data_distribution"
    /\ csv_file' = df
    /\ vpc' = "saved"
    /\ UNCHANGED <<df, quality_report, report_file, service_vars, pipeline, data_files>>

\* validate(): self.save_report(), then return True
SaveReport ==
    /\ vpc = "saved"
    /\ report_file' = quality_report
    /\ vpc' = "done"
    /\ UNCHANGED <<csv_file, df, quality_report, service_vars, pipeline, data_files>>

InitValidator ==
    /\ model_file = 0
    /\ predictor = FreshPredictor
    /\ model_loaded = FALSE
    /\ trainer = NoTrainers(MaxTrains)
    /\ now = StartClock
    /\ nan_ok = FALSE
    /\ log = <<>>
    /\ fb_features = NoFeatures
    /\ fb_result = NotCalled
    /\ csv_file \in Tables
    /\ df = <<>>
    /\ quality_report = NewReport
    /\ report_file = NewReport
    /\ vpc = "init"
    /\ pipeline = NoPipeline
    /\ data_files = <<>>

NextValidator ==
    \/ LoadData
    \/ \E k \in DOMAIN Checks : CheckStep(k)
    \/ ToCsv
    \/ SaveReport

SpecValidator == InitValidator /\ [][NextValidator]_vars

(***************************************************************************)
(* validate() run again on the file it wrote: besides the tables above,    *)
(* files of clean rows that differ in quantity and price only.             *)
(***************************************************************************)
MaxCleanRows == 5

\* prices in half rupees: 40, 42 and 1000 rupees
CleanPrices == {80, 84, 2000}

CleanTables ==
    UNION {{[k \in 1..n |-> [BaseRow EXCEPT !.quantity_kg = Fin(1000 + k),
                                            !.market_price = Fin(prices[k])]] :
              prices \in [1..n -> CleanPrices]} : n \in 1..MaxCleanRows}

\* a new DataValidator(filepath).validate() on the file the last run wrote
Revalidate ==
    /\ vpc = "done"
    /\ df' = <<>>
    /\ quality_report' = NewReport
    /\ vpc' = "init"
    /\ UNCHANGED <<csv_file, report_file, service_vars, pipeline, data_files>>

\* the next check of validate()
ValidateNext(k) ==
    /\ vpc # "loaded" \/ k = 1
    /\ CheckStep(k)

InitRevalidate ==
    /\ model_file = 0
    /\ predictor = FreshPredictor
    /\ model_loaded = FALSE
    /\ trainer = NoTrainers(MaxTrains)
    /\ now = StartClock
    /\ nan_ok = FALSE
    /\ log = <<>>
    /\ fb_features = NoFeatures
    /\ fb_result = NotCalled
    /\ csv_file \in Tables \cup CleanTables
    /\ df = <<>>
    /\ quality_report = NewReport
    /\ report_file = NewReport
    /\ vpc = "init"
    /\ pipeline = NoPipeline
    /\ data_files = <<>>

NextRevalidate ==
    \/ LoadData
    \/ \E k \in DOMAIN Checks : ValidateNext(k)
    \/ ToCsv
    \/ SaveReport
    \/ Revalidate

SpecRevalidate == InitRevalidate /\ [][NextRevalidate]_vars

\* step_func() for the steps 1, 2 and 4: the step is called, logs COMPLETED and
\* returns True, or an exception makes it log FAILED and return False; a
\* completed step 2 has written the combined file
RunStep(k, ok) ==
    /\ pipeline.pc = "loop"
    /\ pipeline.step = k
    /\ k # 3
    /\ pipeline' = [log_step(pipeline, steps[k], IF ok THEN "COMPLETED" ELSE "FAILED")
                       EXCEPT !.pc = "stepped", !.returned = ok,
                              !.calls = Append(@, steps[k])]
    /\ IF k = 2 /\ ok THEN csv_file' \in Tables ELSE UNCHANGED csv_file
    /\ UNCHANGED <<df, quality_report, report_file, vpc, service_vars, data_files>>

\* step_3_validate_data: validator = DataValidator(self.combined_file), validate()
ValidateStart ==
    /\ pipeline.pc = "loop"
    /\ pipeline.step = 3
    /\ pipeline' = [pipeline EXCEPT !.pc = "validating", !.calls = Append(@, steps[3])]
    /\ df' = <<>>
    /\ quality_report' = NewReport
    /\ vpc' = "init"
    /\ UNCHANGED <<csv_file, report_file, service_vars, data_files>>

\* validate() running its checks in order
ValidateCheck(k) ==
    /\ pipeline.pc = "validating"
    /\ vpc # "loaded" \/ k = 1
    /\ CheckStep(k)

\* step_3_validate_data: validate() returned (COMPLETED) or raised (FAILED)
ValidateEnd ==
    /\ pipeline.pc = "validating"
    /\ vpc \in {"done", "crashed"}
    /\ pipeline' = [log_step(pipeline, steps[3], IF vpc = "done" THEN "COMPLETED" ELSE "FAILED")
                       EXCEPT !.pc = "stepped", !.returned = (vpc = "done")]
    /\ UNCHANGED <<validator_vars, service_vars, data_files>>

StepIgnoresFailure ==
    /\ pipeline.pc = "stepped"
    /\ pipeline.step < Len(steps)
    /\ pipeline' = [pipeline EXCEPT !.success_count = @ + 1, !.step = @ + 1, !.pc = "loop"]
    /\ UNCHANGED <<validator_vars, service_vars, data_files>>

\* run_complete_pipeline: if step_func(): success_count += 1, and the next step
StepSucceeded ==
    /\ pipeline.pc = "stepped"
    /\ pipeline.returned
    /\ pipeline.step < Len(steps)
    /\ pipeline' = [pipeline EXCEPT !.success_count = @ + 1, !.step = @ + 1, !.pc = "loop"]
    /\ UNCHANGED <<validator_vars, service_vars, data_files>>

\* run_complete_pipeline: else: self.log['status'] = 'failed', save_log, return False
PipelineStopped ==
    /\ pipeline.pc = "stepped"
    /\ ~pipeline.returned
    /\ pipeline' = [save_log([pipeline EXCEPT !.log.status = "failed"])
                       EXCEPT !.pc = "returned", !.result = "False"]
    /\ UNCHANGED <<validator_vars, service_vars, data_files>>

\* run_complete_pipeline: the last step returned True; self.log['status'] =
\* 'completed', save_log, return True
PipelineCompleted ==
    /\ pipeline.pc = "stepped"
    /\ pipeline.returned
    /\ pipeline.step = Len(steps)
    /\ pipeline' = [save_log([pipeline EXCEPT !.success_count = @ + 1,
                                              !.log.status = "completed"])
                       EXCEPT !.pc = "returned", !.result = "True"]
    /\ UNCHANGED <<validator_vars, service_vars, data_files>>

InitPipeline ==
    /\ model_file = 0
    /\ predictor = FreshPredictor
    /\ model_loaded = FALSE
    /\ trainer = NoTrainers(MaxTrains)
    /\ now = StartClock
    /\ nan_ok = FALSE
    /\ log = <<>>
    /\ fb_features = NoFeatures
    /\ fb_result = NotCalled
    /\ NoValidator
    /\ pipeline = NewPipeline
    /\ data_files = <<>>

NextPipeline ==
    \/ \E k \in DOMAIN steps : \E ok \in BOOLEAN : RunStep(k, ok)
    \/ ValidateStart
    \/ pipeline.pc = "validating" /\ (LoadData \/ ToCsv \/ SaveReport)
    \/ \E k \in DOMAIN Checks : ValidateCheck(k)
    \/ ValidateEnd
    \/ StepSucceeded
    \/ PipelineStopped
    \/ PipelineCompleted

SpecPipeline == InitPipeline /\ [][NextPipeline]_vars

(***************************************************************************)
(* merge_with_existing (data/generate_training_data.py): the original and  *)
(* the generated file merged into the final dataset.                       *)
(***************************************************************************)
MaxOriginal == 2
MaxExpanded == 2

\* pd.to_datetime of a date string: the day it names, counted from 2023-12-31;
\* 0 stands for the ValueError raised on a string that names no date
to_datetime(s) ==
    CASE s = "2024-01-05" -> 5
      [] s = "2024-1-5" -> 5
      [] s = "2024-02-01" -> 32
      [] OTHER -> 0

\* the rows of a file, as far as merge_with_existing looks at them; generate_records
\* writes source "generated" and dates as %Y-%m-%d, the original file has no
\* source column and its dates are as its author typed them
MergeFiles(dates, source, max) ==
    UNION {[1..n -> {[date |-> d, crop_type |-> c, region |-> "North",
                      quality |-> "Premium", source |-> source] :
                        d \in dates, c \in {"Wheat", "Rice"}}] : n \in 0..max}

merge_with_existing ==
    LET combined_df == data_files.original_file \o data_files.expanded_file
        subset(r) == <<r.date, r.crop_type, r.region, r.quality>>
        \* drop_duplicates(subset=[...]), keep='first', on the dates as read
        kept[i \in 0..Len(combined_df)] ==
            IF i = 0 THEN <<>>
            ELSE IF \E j \in 1..(i - 1) : subset(combined_df[j]) = subset(combined_df[i])
                 THEN kept[i - 1]
                 ELSE Append(kept[i - 1], combined_df[i])
        unique == kept[Len(combined_df)]
        parsed == [i \in 1..Len(unique) |-> [unique[i] EXCEPT !.date = to_datetime(@)]]
    IN  /\ IF \E i \in 1..Len(parsed) : parsed[i].date = 0
           THEN UNCHANGED data_files
           ELSE \* sort_values('date'): rows of one date in any order
                \E order \in Permutations(1..Len(parsed)) :
                    LET sorted == [i \in 1..Len(parsed) |-> parsed[order[i]]]
                    IN  /\ \A i \in 1..(Len(sorted) - 1) : sorted[i].date <= sorted[i + 1].date
                        /\ data_files' = [data_files EXCEPT
                                             !.output_file = [exists |-> TRUE, rows |-> sorted]]
       /\ UNCHANGED <<service_vars, validator_vars, pipeline>>

InitMerge ==
    /\ data_files \in
         [original_file : MergeFiles({"2024-01-05", "2024-1-5", "2024-02-01", "soon"},
                                     NA, MaxOriginal),
          expanded_file : MergeFiles({"2024-01-05", "2024-02-01"}, "generated", MaxExpanded),
          output_file : {[exists |-> FALSE, rows |-> <<>>]}]
    /\ model_file = 0
    /\ predictor = FreshPredictor
    /\ model_loaded = FALSE
    /\ trainer = NoTrainers(MaxTrains)
    /\ now = StartClock
    /\ nan_ok = FALSE
    /\ log = <<>>
    /\ fb_features = NoFeatures
    /\ fb_result = NotCalled
    /\ NoValidator
    /\ pipeline = NoPipeline

SpecMerge == InitMerge /\ [][merge_with_existing]_vars


(***************************************************************************)
(* Properties of get_fallback_prediction (checked under SpecFallback)      *)
(***************************************************************************)
Known(table, v) == v.t = "str" /\ v.s \in DOMAIN table

\* the tabled value of a known key, the stated default of any other value
Tabled(table, v, default) == IF Known(table, v) THEN table[v.s] ELSE default

\* the stated bulk factor of a quantity q, in hundredths
StatedBulk(q) == IF q > 5000 THEN 90 ELSE IF q > 2000 THEN 95 ELSE 100

StatedPrice(f, bulk) ==
    Round2(<<Tabled(base_prices, f.crop_type, 40), Tabled(quality_multiplier, f.quality, 10),
             Tabled(region_multiplier, f.region, 100),
             Tabled(season_multiplier, f.season, 100), bulk>>)

Called == fb_result # NotCalled

\* C1: for every feature set the call returns, rounded to 2 decimals, base price x
\* quality x region x season multiplier x bulk factor, with the tabled value of every
\* known key, base price 40.0 for an unknown crop type and multiplier 1.0 for an
\* unknown quality, region or season; an unknown categorical value never makes it fail.
C1_FallbackFormula ==
    Called =>
        /\ fb_result.exc = "none"
        /\ fb_result.price = StatedPrice(fb_features, StatedBulk(fb_features.quantity_kg.n))

\* an unknown crop type with a known quality: 40.0 x 1.2 = 48.00
C1_Witness ==
    /\ Called
    /\ fb_features.crop_type = Str("InvalidCrop123")
    /\ fb_features.quality = Str("Premium")
    /\ fb_features.region = Str("Central")
    /\ fb_features.season = Str("Monsoon")
    /\ fb_features.quantity_kg = Fin(2000)
    /\ fb_result.price = 4800

\* C2: the bulk factor is 0.90 exactly when quantity_kg > 5000, 0.95 exactly when
\* 2000 < quantity_kg <= 5000 and 1.0 when quantity_kg <= 2000 (so 2000 gets no
\* discount and 5000 gets 5%), and with the other inputs fixed the price per kg
\* never increases as the quantity grows.
C2_BulkTiers ==
    Called =>
        LET q == fb_features.quantity_kg.n
        IN  /\ BulkFactor(fb_features.quantity_kg) = 90 <=> q > 5000
            /\ BulkFactor(fb_features.quantity_kg) = 95 <=> (2000 < q /\ q <= 5000)
            /\ BulkFactor(fb_features.quantity_kg) = 100 <=> q <= 2000
            /\ fb_result.price = StatedPrice(fb_features, StatedBulk(q))
            /\ \A q2 \in FbQuantities :
                 q2 >= q =>
                   get_fallback_prediction(
                       [fb_features EXCEPT !.quantity_kg = Fin(q2)]).price <= fb_result.price

\* exactly 5000 kg of Grade_A wheat in the North in winter: 45.0 x 0.95 = 42.75
C2_Witness ==
    /\ Called
    /\ fb_features.crop_type = Str("Wheat")
    /\ fb_features.quality = Str("Grade_A")
    /\ fb_features.region = Str("North")
    /\ fb_features.season = Str("Winter")
    /\ fb_features.quantity_kg = Fin(5000)
    /\ fb_result.price = 4275

\* C19: every price get_fallback_prediction returns lies strictly between 10 and
\* 200 per kg (1000 and 20000 paise), for every combination of known or unknown
\* crop_type, quality, region and season and every positive quantity.
C19_FallbackPriceRange ==
    Called =>
        /\ fb_result.exc = "none"
        /\ 1000 < fb_result.price
        /\ fb_result.price < 20000

\* the cheapest combination: over 5000 kg of Grade_C vegetables in the East in
\* summer, 32 x 0.6 x 0.95 x 0.95 x 0.9 = 15.60
C19_Witness ==
    /\ Called
    /\ fb_features.crop_type = Str("Vegetables")
    /\ fb_features.quality = Str("Grade_C")
    /\ fb_features.region = Str("East")
    /\ fb_features.season = Str("Summer")
    /\ fb_features.quantity_kg = Fin(5001)
    /\ fb_result.price = 1560

\* the price get_fallback_prediction returns for features f with quality q
PriceOfQuality(f, q) == get_fallback_prediction([f EXCEPT !.quality = Str(q)]).price

\* C20: with crop type, region, season and quantity fixed, the returned (rounded)
\* price of Premium is strictly above that of Grade_A, which is strictly above that
\* of Grade_B, which is strictly above that of Grade_C.
C20_QualityOrdersPrice ==
    Called =>
        /\ PriceOfQuality(fb_features, "Premium") > PriceOfQuality(fb_features, "Grade_A")
        /\ PriceOfQuality(fb_features, "Grade_A") > PriceOfQuality(fb_features, "Grade_B")
        /\ PriceOfQuality(fb_features, "Grade_B") > PriceOfQuality(fb_features, "Grade_C")

\* Grade_B of the cheapest crop with every discount: 20.79, between Grade_C 15.60
\* and Grade_A 25.99
C20_Witness ==
    /\ Called
    /\ fb_features.crop_type = Str("Vegetables")
    /\ fb_features.quality = Str("Grade_B")
    /\ fb_features.region = Str("East")
    /\ fb_features.season = Str("Summer")
    /\ fb_features.quantity_kg = Fin(100000)
    /\ fb_result.price = 2079
    /\ PriceOfQuality(fb_features, "Grade_A") = 2599
    /\ PriceOfQuality(fb_features, "Grade_C") = 1560

(***************************************************************************)
(* Properties of the service (checked under Spec)                          *)
(***************************************************************************)
Predicts == {i \in 1..Len(log) : log[i].kind = "predict"}
Answered == {i \in Predicts : log[i].resp.status = 200}

\* the inputs get_fallback_prediction reads
FallbackInputs(f) == <<f.crop_type, f.quality, f.region, f.season, f.quantity_kg>>

SameFallbackInputsSamePrice ==
    \A i, j \in Answered :
        /\ log[i].resp.method = "fallback"
        /\ log[j].resp.method = "fallback"
        /\ FallbackInputs(log[i].resp.input_features) = FallbackInputs(log[j].resp.input_features)
        => log[i].resp.predicted_price = log[j].resp.predicted_price

FallbackAnswer ==
    /\ Len(log') = Len(log) + 1
    /\ log'[Len(log')].kind = "predict"
    /\ log'[Len(log')].resp.method = "fallback"

\* C3: the fallback price is deterministic and stateless: two calls with equal
\* (crop_type, quality, region, season, quantity_kg) return equal prices, whatever
\* requests, trainings, clock or model_loaded changes happened before or between
\* them, and a call changes no state of the service.
C3_FallbackStateless ==
    /\ []SameFallbackInputsSamePrice
    /\ [][FallbackAnswer =>
            UNCHANGED <<model_loaded, predictor, model_file, trainer, now, nan_ok>>]_vars

\* two fallback answers to equal inputs, a month apart and with a completed
\* training between them
C3_Witness ==
    \E i, j \in Answered :
        /\ i < j
        /\ log[i].resp.method = "fallback"
        /\ log[j].resp.method = "fallback"
        /\ FallbackInputs(log[i].resp.input_features) = FallbackInputs(log[j].resp.input_features)
        /\ log[i].resp.input_features.month # log[j].resp.input_features.month
        /\ \E k \in (i + 1)..(j - 1) : log[k].kind = "train" /\ log[k].resp.status = 200

NotANumber(v) ==
    \/ Float(v).exc \in {"ValueError", "TypeError"}
    \/ Float(v).exc = "none" /\ Float(v).val.k = "nan"

NonPositive(v) == Float(v).exc = "none" /\ FloatLe(Float(v).val, 0)

\* C4: a request is answered 400 with success=false, and no price is computed,
\* whenever its JSON body is empty, lacks a required field, or has a quantity_kg
\* that is not a number or is <= 0.
C4_BadRequestsGet400 ==
    \A i \in Predicts :
        LET body == log[i].body
        IN  /\ body.kind # "invalid"
            /\ \/ ~Truthy(body)
               \/ MissingFields(body) # <<>>
               \/ NotANumber(body.data.quantity_kg)
               \/ NonPositive(body.data.quantity_kg)
            => /\ log[i].resp.status = 400
               /\ ~log[i].resp.success
               /\ "predicted_price" \notin log[i].resp.keys

\* C5: a request whose body is not parseable JSON is answered 400.
C5_InvalidJsonGets400 ==
    \A i \in Predicts : log[i].body.kind = "invalid" => log[i].resp.status = 400

PositiveNumber(v) == (v.t = "num" /\ v.n > 0) \/ v.t = "bigint"

\* C6: every request with the four required fields and a positive number as
\* quantity_kg is answered 200 with success=true and a body holding predicted_price,
\* confidence, method, currency and total_value, with predicted_price > 0 and
\* confidence > 0, whether or not a model is loaded.
C6_ValidRequestsSucceed ==
    \A i \in Predicts :
        LET body == log[i].body
        IN  /\ body.kind = "dict"
            /\ MissingFields(body) = <<>>
            /\ PositiveNumber(body.data.quantity_kg)
            => /\ log[i].resp.status = 200
               /\ log[i].resp.success
               /\ {"predicted_price", "confidence", "method", "currency", "total_value"}
                     \subseteq log[i].resp.keys
               /\ log[i].resp.predicted_price > 0
               /\ log[i].resp.confidence > 0

TrainRunning(i) ==
    Cardinality({k \in 1..i : log[k].kind = "train_start"})
        > Cardinality({k \in 1..i : log[k].kind = "train"})

\* C7 as stated: two successful requests with the same payload return the same
\* predicted_price provided no POST /api/train completes between them, also when
\* the payload omits season, year and month.
C7_SamePayloadSamePrice ==
    \A i, j \in Answered :
        /\ i < j
        /\ log[i].body = log[j].body
        /\ \A k \in i..j : ~(log[k].kind = "train" /\ log[k].resp.status = 200)
        => log[i].resp.predicted_price = log[j].resp.predicted_price

\* the optional fields the service fills in from the clock when the payload omits them
ClockFields == {"season", "year", "month"}

\* requests i and j got equal values for every clock field their payload omits
SameFilledIn(i, j) ==
    \A f \in ClockFields :
        \/ log[i].body.data[f] # Absent
        \/ log[i].resp.input_features[f] = log[j].resp.input_features[f]

\* C7 (amended): two successful requests with the same payload return the same
\* predicted_price provided no POST /api/train is being handled at any time between
\* them and the service fills in equal values for each of season, year and month
\* that the payload omits (it takes them from the clock at the time of each request).
C7_SamePayloadSameClockSamePrice ==
    \A i, j \in Answered :
        /\ i < j
        /\ log[i].body = log[j].body
        /\ SameFilledIn(i, j)
        /\ ~TrainRunning(i)
        /\ \A k \in i..j : log[k].kind = "predict"
        => log[i].resp.predicted_price = log[j].resp.predicted_price

\* the same payload without season, year and month, answered twice by the model
\* in January 2026
C7_Witness ==
    \E i, j \in Answered :
        /\ i < j
        /\ log[i].body = DictBody(Payload)
        /\ log[j].body = DictBody(Payload)
        /\ log[i].resp.method = "ml_model"
        /\ log[i].resp.input_features.season = Str("Winter")
        /\ log[i].resp.input_features.year = Num(2026)
        /\ SameFilledIn(i, j)
        /\ ~TrainRunning(i)
        /\ \A k \in i..j : log[k].kind = "predict"
        /\ log[i].resp.predicted_price = log[j].resp.predicted_price

UnknownString(table, v) == v.t = "str" /\ v.s \notin DOMAIN table

VeryLarge(v) == v.t = "bigint" \/ (v.t = "num" /\ v.n > 100000)

\* C8: a request with all required fields whose crop_type, region or quality is a
\* string outside the known vocabularies, or whose quantity_kg is very large, is
\* answered 200, 400 or 422 and never 500, with and without a loaded model.
C8_UnknownValuesNever500 ==
    \A i \in Predicts :
        LET body == log[i].body
        IN  /\ body.kind = "dict"
            /\ MissingFields(body) = <<>>
            /\ \/ UnknownString(base_prices, body.data.crop_type)
               \/ UnknownString(region_multiplier, body.data.region)
               \/ UnknownString(quality_multiplier, body.data.quality)
               \/ VeryLarge(body.data.quantity_kg)
            => log[i].resp.status \in {200, 400, 422}

\* this step answers a POST /api/predict
Predicted == Len(log') = Len(log) + 1 /\ log'[Len(log')].kind = "predict"

\* the features with every categorical value that table d's encoders have not seen
\* replaced by the most common training value of its column
AsMostCommon(f, d) ==
    [c \in DOMAIN f |->
        IF c \in DOMAIN Classes(d) /\ PyStr(f[c]) \notin Range(Classes(d)[c])
        THEN Str(MostCommon(d)[c]) ELSE f[c]]

\* C18: PricePredictor.predict encodes a categorical value its encoder has not seen
\* as the most common training value of that feature and then still returns a
\* prediction: a request answered on a loaded model gets the price the model gives
\* to the features with the unseen values replaced by the most common ones.
C18_UnseenAsMostCommon ==
    [][\A d \in Datasets :
          LET resp == log'[Len(log')].resp
              want == predict(predictor, AsMostCommon(resp.input_features, d), nan_ok)
          IN  /\ Predicted
              /\ model_loaded
              /\ predictor = LoadedPredictor(d)
              /\ resp.status = 200
              /\ want.exc = "none"
              => /\ resp.method = "ml_model"
                 /\ resp.predicted_price = want.price]_vars

\* the request of this step passed get_json, the emptiness test and validate_input
Validated(body) ==
    /\ get_json(body).exc = "none"
    /\ Truthy(body)
    /\ validate_input(body).exc = "none"
    /\ validate_input(body).ok

\* the response is a 200 with this price, method and confidence (in hundredths)
Carries(resp, price, method, confidence) ==
    /\ resp.status = 200
    /\ resp.predicted_price = price
    /\ resp.method = method
    /\ resp.confidence = confidence

\* the stated outcome of a validated request answered in this step
StatedOutcome(resp, features) ==
    LET ml == predict(predictor, features, nan_ok)
        fallback_price == get_fallback_prediction(features).price
    IN  /\ ~model_loaded => Carries(resp, fallback_price, "fallback", 65)
        /\ model_loaded /\ ml.exc = "none" => Carries(resp, ml.price, "ml_model", 85)
        /\ model_loaded /\ ml.exc # "none" => Carries(resp, fallback_price, "fallback", 65)
        /\ resp.status = 200 => (resp.method = "ml_model" <=> resp.confidence = 85)

\* C15: for every validated predict request: with model_loaded false the response
\* carries the fallback price, method 'fallback' and confidence 0.65; with
\* model_loaded true and the predictor returning, the predictor's price, 'ml_model'
\* and 0.85; with model_loaded true and the predictor raising, the request still
\* succeeds with the fallback price, 'fallback' and 0.65; in every 200 response the
\* method is 'ml_model' exactly when the confidence is 0.85.
C15_MethodAndConfidence ==
    [][Predicted /\ Validated(log'[Len(log')].body) =>
          StatedOutcome(log'[Len(log')].resp,
                        prepare_features(log'[Len(log')].body.data, now))]_vars

\* the same for the requests on which get_fallback_prediction would not raise
C15_WhenFallbackReturns ==
    [][/\ Predicted
       /\ Validated(log'[Len(log')].body)
       /\ get_fallback_prediction(prepare_features(log'[Len(log')].body.data, now)).exc = "none"
       => StatedOutcome(log'[Len(log')].resp,
                        prepare_features(log'[Len(log')].body.data, now))]_vars

\* the fields of the predictor that a prediction uses
ServingFields == {"model", "scaler", "label_encoders", "feature_columns"}

\* in this step thread t answers its POST /api/train with 200, no other thread
\* handling a POST /api/train
TrainAnswered(t) ==
    /\ trainer[t].pc = "loaded"
    /\ trainer'[t].pc = "idle"
    /\ \A u \in DOMAIN trainer : u # t => trainer[u].pc = "idle"

\* the 200 answers to POST /api/train so far
Trained == {i \in 1..Len(log) : log[i].kind = "train" /\ log[i].resp.status = 200}

LastTrained == CHOOSE k \in Trained : \A i \in Trained : i <= k

NoTrainingInFlight == \A t \in DOMAIN trainer : trainer[t].pc = "idle"

\* C14: after a POST /api/train that responds 200 with success=true the service
\* has reloaded its predictor from the model file that this training just saved
\* (or from the file as another training has saved it since): once no other
\* training is being handled, the response's model_loaded is the outcome of that
\* reload and the predictor holds that file's model, and later predictions, made
\* while no training is being handled, are answered by that newly trained model.
C14_ReloadedAfterTraining ==
    /\ [][\A t \in DOMAIN trainer :
            TrainAnswered(t) =>
                /\ log'[Len(log')].resp.success
                /\ log'[Len(log')].resp.model_loaded = model_loaded'
                /\ model_loaded'
                /\ \E d \in {trainer[t].saved, model_file} :
                       \A f \in ServingFields : predictor'[f] = LoadedPredictor(d)[f]]_vars
    /\ [][Predicted /\ NoTrainingInFlight /\ Trained # {}
            /\ log'[Len(log')].resp.status = 200 =>
                \E d \in {log[LastTrained].saved, model_file} :
                    log'[Len(log')].resp =
                        MakePrediction(log'[Len(log')].resp.input_features,
                                       LoadedPredictor(d), TRUE, nan_ok)]_vars

\* this step belongs to a POST /api/train that is answered 500
TrainFails(t) == trainer[t].pc = "train" /\ trainer'[t].pc = "idle"

\* C16: when POST /api/train fails (train_and_save_model returns False or raises)
\* the response is 500 with success=false, and the request changes neither
\* model_loaded nor the serving predictor's model, scaler, label encoders and
\* feature columns.
C16_FailedTrainChangesNothing ==
    [][\A t \in DOMAIN trainer :
          TrainFails(t) =>
              /\ log' = Append(log, log'[Len(log')])
              /\ log'[Len(log')].kind = "train"
              /\ log'[Len(log')].resp.status = 500
              /\ ~log'[Len(log')].resp.success
              /\ UNCHANGED <<model_loaded, predictor>>]_vars

\* a training failed while a model was loaded, and a later prediction was still
\* answered by that model
C16_Witness ==
    /\ model_loaded
    /\ predictor = LoadedPredictor(1)
    /\ \E i, j \in 1..Len(log) :
          /\ i < j
          /\ log[i].kind = "train"
          /\ log[i].resp.status = 500
          /\ log[j].kind = "predict"
          /\ log[j].resp.method = "ml_model"

(***************************************************************************)
(* Properties of DataValidator (checked under SpecValidator)               *)
(***************************************************************************)
\* this step is a check method returning, having appended its check `name`
CheckReturns(name) ==
    /\ Len(quality_report'.checks) = Len(quality_report.checks) + 1
    /\ quality_report'.checks[Len(quality_report'.checks)].name = name

\* validate() has written the cleaned dataset
Written == vpc \in {"saved", "done"}

\* position k of the report's checks holds a failed check `name`
Failed(k, name) ==
    /\ Len(quality_report.checks) >= k
    /\ quality_report.checks[k] = Check(name, FALSE)

StatedInvalidQuantity(q) == q.k = "fin" /\ (q.n <= 0 \/ q.n > 100000)

\* C9: check_quantity_validity removes exactly the rows whose quantity_kg is <= 0 or
\* > 100000 and keeps every other row unchanged and in order, and every row of the
\* dataset that validate() writes has 0 < quantity_kg <= 100000.
C9_QuantityValidity ==
    /\ [][CheckReturns("Quantity Validity") =>
            df' = SelectSeq(df, LAMBDA r : ~StatedInvalidQuantity(r.quantity_kg))]_vars
    /\ [](Written =>
            \A i \in 1..Len(csv_file) :
                /\ csv_file[i].quantity_kg.k = "fin"
                /\ 0 < csv_file[i].quantity_kg.n
                /\ csv_file[i].quantity_kg.n <= 100000)

\* validate() has removed rows for their quantity and written a dataset that
\* keeps a row of exactly 100000 kg
C9_Witness ==
    /\ vpc = "done"
    /\ Failed(3, "Quantity Validity")
    /\ Len(csv_file) >= 2
    /\ \E i \in 1..Len(csv_file) : csv_file[i].quantity_kg = Fin(100000)

\* the vocabularies of the five columns: the values the data generator draws from
StatedVocabulary ==
    [crop_type |-> {"Wheat", "Rice", "Corn", "Pulses", "Sugarcane", "Cotton", "Soybean",
                    "Vegetables", "Fruits", "Spices"},
     region |-> {"North", "South", "East", "West", "Central", "Northeast"},
     quality |-> {"Premium", "Grade_A", "Grade_B", "Grade_C"},
     season |-> {"Winter", "Spring", "Summer", "Autumn", "Monsoon"},
     market_demand |-> {"Very High", "High", "Medium", "Low", "Very Low"}]

AllInside(r) == \A col \in DOMAIN StatedVocabulary : r[col] \in StatedVocabulary[col]

\* C10: check_categorical_values drops every row in which crop_type, region, quality,
\* season or market_demand holds a value outside that column's vocabulary (a missing
\* value included) and keeps every row whose five values are all inside, in order;
\* every row of the dataset that validate() writes has all five inside.
C10_CategoricalValues ==
    /\ [][CheckReturns("Categorical Values") => df' = SelectSeq(df, AllInside)]_vars
    /\ [](Written => \A i \in 1..Len(csv_file) : AllInside(csv_file[i]))

\* validate() has removed rows for their categorical values and written a dataset
\* that keeps a row of Spices from the Central region in the Monsoon season
C10_Witness ==
    /\ vpc = "done"
    /\ Failed(4, "Categorical Values")
    /\ \E i \in 1..Len(csv_file) :
          /\ csv_file[i].crop_type = "Spices"
          /\ csv_file[i].region = "Central"
          /\ csv_file[i].season = "Monsoon"

\* check_missing_values has ended: it returned to validate(), or it raised
MissingDone ==
    \/ vpc = "check_missing_values"
    \/ vpc = "crashed" /\ quality_report.checks = <<>>

\* cell is what the claim fills a missing cell of column col of the loaded file with
StatedFill(col, cell) ==
    LET idx == Present(csv_file, col)
    IN  IF col = "market_price"
        THEN /\ cell.k = "fin"
             /\ 2 * Cardinality({i \in idx : csv_file[i][col].n <= cell.n}) >= Cardinality(idx)
             /\ 2 * Cardinality({i \in idx : csv_file[i][col].n >= cell.n}) >= Cardinality(idx)
        ELSE IF col \in {"weather", "market_demand", "season"} THEN cell = "Unknown"
        ELSE /\ \E i \in idx : csv_file[i][col] = cell
             /\ \A i \in idx :
                    Occurrences(csv_file, col, csv_file[i][col]) <= Occurrences(csv_file, col, cell)

\* C11: check_missing_values removes no row and leaves no missing value in any
\* column, for every input table, one with a column missing in every row included:
\* a missing market_price becomes the column median, a missing weather,
\* market_demand or season becomes 'Unknown', a missing value of any other column
\* becomes that column's most frequent value, and no other cell changes.
C11_MissingValuesFilled ==
    MissingDone =>
        /\ vpc # "crashed"
        /\ Len(df) = Len(csv_file)
        /\ ~AnyMissing(df)
        /\ \A i \in 1..Len(df) : \A col \in Range(Columns) :
              IF IsNull(col, csv_file[i][col]) THEN StatedFill(col, df[i][col])
              ELSE df[i][col] = csv_file[i][col]

\* the same on the tables in which every column has a value in some row
C11_FilledWhenEveryColumnHasAValue ==
    (\A col \in Range(Columns) : Present(csv_file, col) # {}) => C11_MissingValuesFilled



\* the price lies strictly below Q1 - 1.5 * IQR or strictly above Q3 + 1.5 * IQR of
\* the prices of table (compared times 8, Quantile4 being 4 times the quartile)
StatedOutlier(table, price) ==
    /\ price.k = "fin"
    /\ Present(table, "market_price") # {}
    /\ LET lower8 == 2 * Quantile4(table, 1) - 3 * (Quantile4(table, 3) - Quantile4(table, 1))
           upper8 == 2 * Quantile4(table, 3) + 3 * (Quantile4(table, 3) - Quantile4(table, 1))
       IN  8 * price.n < lower8 \/ 8 * price.n > upper8

\* C12: check_price_outliers (IQR method, threshold 1.5) removes exactly the rows
\* whose market_price is strictly below Q1 - 1.5 * IQR or strictly above
\* Q3 + 1.5 * IQR and keeps every row on or inside the bounds, in order, Q1 and Q3
\* being the quartiles of the price column as it stands when the check runs.
C12_PriceOutliers ==
    [][CheckReturns("Price Outliers") =>
          df' = SelectSeq(df, LAMBDA r : ~StatedOutlier(df, r.market_price))]_vars

\* validate() has removed a row for its price, after filling and removing other
\* rows, and written a dataset that keeps rows of two different prices
C12_Witness ==
    /\ vpc = "done"
    /\ Failed(5, "Price Outliers")
    /\ Len(csv_file) >= 3
    /\ \E i, j \in 1..Len(csv_file) : csv_file[i].market_price # csv_file[j].market_price



\* the positions of the rows of table that equal no earlier row in every column
FirstOccurrences(table) == {i \in 1..Len(table) : \A j \in 1..(i - 1) : table[j] # table[i]}

\* the k-th position of idx, in increasing order
KthPosition(idx, k) == CHOOSE i \in idx : Cardinality({j \in idx : j <= i}) = k

NoTwoEqualRows(table) == \A i, j \in 1..Len(table) : table[i] = table[j] => i = j

\* C13: check_duplicates keeps the first occurrence of each group of rows that are
\* equal in every column, removes the other rows of the group and touches no other
\* row; the dataset written by validate() contains no two rows equal in every column.
C13_Duplicates ==
    /\ [][CheckReturns("Duplicate Records") =>
            /\ Len(df') = Cardinality(FirstOccurrences(df))
            /\ \A k \in 1..Len(df') : df'[k] = df[KthPosition(FirstOccurrences(df), k)]]_vars
    /\ [](Written => NoTwoEqualRows(csv_file))

\* validate() has removed duplicates of a file in which the repeated row was not
\* the last one, and written a dataset of several rows
C13_Witness ==
    /\ vpc = "done"
    /\ Failed(2, "Duplicate Records")
    /\ Len(csv_file) >= 2
    /\ csv_file[1] = BaseRow
    /\ csv_file[2] # BaseRow



\* validate() has run its six checks and is about to write self.df
AboutToWrite == vpc = "check_data_distribution"

\* check k of the report passed
Passed(k) == Len(quality_report.checks) >= k /\ quality_report.checks[k].passed

\* row r of the cleaned table is row i of the file with its missing cell of
\* column col repaired as 'Unknown'
RepairedAs(r, i, col) ==
    /\ r[col] = "Unknown"
    /\ \A c \in Range(Columns) : ~IsNull(c, csv_file[i][c]) => r[c] = csv_file[i][c]

\* C22: a row whose season or market_demand cell was missing in the input, and
\* which passes the duplicate, quantity and price-outlier checks (here: these
\* checks removed no row, and the row's other categorical values are valid), is
\* still present in the dataset validate() writes, with 'Unknown' in that column.
C22_MissingSeasonRepaired ==
    AboutToWrite /\ Passed(2) /\ Passed(3) /\ Passed(5) =>
        \A i \in 1..Len(csv_file) : \A col \in {"season", "market_demand"} :
            /\ csv_file[i][col] = NA
            /\ \A c \in Range(valid_columns) \ {col} : csv_file[i][c] \in valid_values[c]
            => \E j \in 1..Len(df) : RepairedAs(df[j], i, col)

\* validate() is running on a file that an earlier validate() wrote
SecondRun == report_file # NewReport /\ vpc \notin {"init", "done"}

\* C25: validate() is idempotent on its own output: run again on the cleaned
\* dataset it wrote, it raises nothing, removes and changes no row, and every
\* check passes with no issue found.
C25_ValidateIdempotent ==
    SecondRun =>
        /\ vpc # "crashed"
        /\ df = csv_file
        /\ quality_report.issues_found = 0
        /\ \A k \in 1..Len(quality_report.checks) : quality_report.checks[k].passed

\* C26: while DataValidator runs its checks, and in the saved report,
\* issues_fixed <= issues_found; both counters start at 0 and never decrease, and
\* every check executed appends exactly one entry to quality_report['checks'].
C26_FixedAtMostFound ==
    /\ [](quality_report.issues_fixed <= quality_report.issues_found)
    /\ [](report_file.issues_fixed <= report_file.issues_found)
    /\ [](vpc \in {"init", "loaded"} =>
            quality_report.issues_found = 0 /\ quality_report.issues_fixed = 0)
    /\ [][vpc' \in Range(Checks) \cup {"returned"} /\ vpc' # vpc =>
            /\ quality_report'.issues_found >= quality_report.issues_found
            /\ quality_report'.issues_fixed >= quality_report.issues_fixed
            /\ Len(quality_report'.checks) = Len(quality_report.checks) + 1]_vars

\* the same without the comparison of the two counters
C26_CountersAndEntries ==
    /\ [](vpc \in {"init", "loaded"} =>
            quality_report.issues_found = 0 /\ quality_report.issues_fixed = 0)
    /\ [][vpc' \in Range(Checks) \cup {"returned"} /\ vpc' # vpc =>
            /\ quality_report'.issues_found >= quality_report.issues_found
            /\ quality_report'.issues_fixed >= quality_report.issues_fixed
            /\ Len(quality_report'.checks) = Len(quality_report.checks) + 1]_vars

\* C23: with POST /api/train and POST /api/predict handled on separate threads, a
\* prediction that reaches predictor.predict() reads a model, a scaler, label
\* encoders and a feature-column list that all come from one completed load.
OneLoad(p) == \E d \in Datasets : \A f \in ServingFields : p[f] = d

UsesModel ==
    Predicted /\ model_loaded /\ log'[Len(log')].body = DictBody(Payload)

C23_PredictReadsOneLoad == [][UsesModel => OneLoad(predictor)]_vars

\* C24: load_model is all-or-nothing: it returns True and the six fields are the
\* file's contents, or it returns False (file missing, unreadable, or lacking an
\* expected entry) and the six fields are what they were before the call.
C24_LoadAllOrNothing ==
    [][/\ model_loaded' =>
            \A f \in Range(LoadOrder) :
                predictor'[f] = IF f \in DOMAIN model_file.data THEN model_file.data[f]
                                ELSE 0
       /\ ~model_loaded' => predictor' = predictor]_vars

\* C21: the dataset written by merge_with_existing has at most one row for each
\* (date, crop_type, region, quality), keeps the original file's row where an
\* original and a generated row share that combination, and is sorted by date.
Merged == data_files.output_file.rows

Combination(r) == <<r.date, r.crop_type, r.region, r.quality>>

OnDate(r) == [r EXCEPT !.date = to_datetime(@)]

StatedMerge ==
    /\ \A i, j \in 1..Len(Merged) :
          i # j => Combination(Merged[i]) # Combination(Merged[j])
    /\ \A i \in 1..Len(data_files.original_file) :
          \A j \in 1..Len(data_files.expanded_file) :
              Combination(OnDate(data_files.original_file[i]))
                  = Combination(OnDate(data_files.expanded_file[j]))
              => \E k \in 1..Len(Merged) : Merged[k] = OnDate(data_files.original_file[i])
    /\ \A i \in 1..(Len(Merged) - 1) : Merged[i].date <= Merged[i + 1].date

C21_MergedDataset == data_files.output_file.exists => StatedMerge

\* every date of the two files is written in one way only
DatesWrittenAlike ==
    \A r, q \in Range(data_files.original_file) \cup Range(data_files.expanded_file) :
        to_datetime(r.date) = to_datetime(q.date) => r.date = q.date

\* the same, for files in which no date is written in two ways
C21_WhenDatesWrittenAlike ==
    data_files.output_file.exists /\ DatesWrittenAlike => StatedMerge

(***************************************************************************)
(* Properties of DataPipeline (checked under SpecPipeline)                 *)
(***************************************************************************)
\* the steps logged so far are the first n of the list, all COMPLETED
AllCompleted(p, n) ==
    p.log.steps_completed = [k \in 1..n |-> [name |-> steps[k], status |-> "COMPLETED"]]

\* C17: run_complete_pipeline runs Generate Data, Merge Data, Validate Data and
\* Generate Statistics strictly in that order and starts a step only when every
\* earlier step returned True; at the first step returning False no later step
\* runs, the log status becomes 'failed', the log is saved and the result is False;
\* the status is 'completed' and the result True only when all four steps
\* succeeded, and the status is never left 'running' when the method returns.
C17_PipelineOrder ==
    /\ [][pipeline'.calls # pipeline.calls =>
            /\ pipeline'.calls = SubSeq(steps, 1, Len(pipeline.calls) + 1)
            /\ pipeline.success_count = Len(pipeline.calls)
            /\ AllCompleted(pipeline, Len(pipeline.calls))
            /\ pipeline.log.status = "running"]_vars
    /\ [][pipeline.pc = "stepped" /\ ~pipeline.returned /\ pipeline' # pipeline =>
            /\ pipeline'.pc = "returned"
            /\ pipeline'.result = "False"
            /\ pipeline'.calls = pipeline.calls
            /\ pipeline'.log.status = "failed"
            /\ pipeline'.log_file = pipeline'.log]_vars
    /\ [](pipeline.pc = "returned" =>
            /\ pipeline.log.status \in {"failed", "completed"}
            /\ pipeline.log_file = pipeline.log
            /\ pipeline.result = (IF pipeline.log.status = "completed" THEN "True" ELSE "False"))
    /\ [](pipeline.log.status = "completed" \/ pipeline.result = "True" =>
            /\ pipeline.calls = steps
            /\ pipeline.success_count = Len(steps)
            /\ AllCompleted(pipeline, Len(steps)))

\* the run stopped at Validate Data, validate() having raised on the combined
\* file: two steps completed, Generate Statistics never called, the failure saved
C17_Witness ==
    /\ pipeline.pc = "returned"
    /\ pipeline.result = "False"
    /\ pipeline.calls = SubSeq(steps, 1, 3)
    /\ vpc = "crashed"
    /\ pipeline.log_file.status = "failed"
    /\ pipeline.log_file.steps_completed[3] = [name |-> "Validate Data", status |-> "FAILED"]


====
